---- MODULE Spec2Model ----
(***************************************************************************)
(* The live streaming handlers of ZhiYuAI:                                 *)
(*   services/voice-interaction/main.py   voice_translate_live             *)
(*       with StreamingRecognizerCallback                                  *)
(*   services/scene-recognition/main.py   dialogue_live                    *)
(*       with _StreamingASRCallback                                        *)
(*                                                                         *)
(* Three threads of control are modelled.  The event-loop thread runs the  *)
(* handler coroutine (hpc) and the sender task (spc): only one of them     *)
(* runs at a time, and a synchronous section of one is never interrupted   *)
(* by the other.  The recognition engine runs its callbacks on a thread of *)
(* its own (epc), which interleaves with the loop thread at every step.    *)
(* The engine, the client, the reasoning, vision and synthesis services    *)
(* are external: what they do is a nondeterministic choice.  The engine    *)
(* may fire its callbacks in any order and any number of times while it    *)
(* runs, and fires none once recognizer.stop has returned.                 *)
(*                                                                         *)
(* asyncio.run_coroutine_threadsafe(queue.put(x), loop) hands the put to   *)
(* the loop's FIFO of ready callbacks and the queue is unbounded, so the   *)
(* order of the puts is the order of the _schedule/_emit calls: enq is     *)
(* appended at the call.                                                   *)
(***************************************************************************)
EXTENDS Integers, Sequences, FiniteSets, TLC

\* ------------------------------------------------------------------ bounds
\* External events of one session: engine callbacks fired plus client
\* messages received.
MaxEvents == 3
\* The configured ceiling (MAX_AUDIO_BYTES is read from the environment; the
\* model runs with a small configured value).
MAX_AUDIO_BYTES == 3
\* Lengths of the audio chunks a client sends.
ChunkSizes == {1, 2}

Handlers == {"voice", "dialogue"}
\* Characters of recognised text: one whitespace character and two letters.
Space == " "
\* transcription_result.text values the engine may report.
Fragments == { <<" ">>, <<"a">>, <<" ", "b", " ">> }
\* Image references a frame message may carry.
Urls == {"u1", "u2"}

\* The handlers that use StreamingRecognizerCallback: voice_translate_live and
\* the live path of voice_translate_stream.
TranslationHandlers == {"voice", "stream"}

\* The clips voice_translate_stream is given, as _load_audio_bytes lets them
\* through (none above MAX_AUDIO_BYTES): their length and the lengths of the
\* chunks the feed loop cuts them into.
Clips == { [bytes |-> 0, chunks |-> <<>>],
           [bytes |-> 1, chunks |-> <<1>>],
           [bytes |-> 3, chunks |-> <<2, 1>>] }

\* What translation_result holds in one on_event call: the languages of
\* get_language_list() in order, each with the text of its translation.
Tr(language, text) == [language |-> language, text |-> text]
NoTranslation == <<>>
TranslationResults ==
    { NoTranslation,
      << Tr("en", <<"x">>) >>,
      << Tr("en", <<"y">>) >>,
      << Tr("en", <<>>) >>,
      << Tr("zh", <<"x">>) >>,
      << Tr("en", <<"x">>), Tr("zh", <<"y">>) >> }

\* --------------------------------------------------------------- strings
\* str.strip() on the left.
RECURSIVE LStrip(_)
LStrip(s) == IF s = <<>> THEN <<>>
             ELSE IF Head(s) = Space THEN LStrip(Tail(s)) ELSE s

\* str.strip() on the right.
RECURSIVE RStrip(_)
RStrip(s) == IF s = <<>> THEN <<>>
             ELSE IF s[Len(s)] = Space THEN RStrip(SubSeq(s, 1, Len(s) - 1)) ELSE s

\* str.strip()
Strip(s) == RStrip(LStrip(s))

\* " ".join(parts)
RECURSIVE Join(_)
Join(parts) == IF parts = <<>> THEN <<>>
               ELSE IF Len(parts) = 1 THEN parts[1]
               ELSE parts[1] \o <<Space>> \o Join(Tail(parts))

\* ----------------------------------------------------------------- state
VARIABLES
    handler,        \* which handler serves the session
    mock_mode,      \* is_mock_mode(): fixed when the service is loaded
    hpc,            \* position of the handler coroutine
    spc,            \* position of the sender task
    epc,            \* position of the engine thread inside a callback
    ended,          \* callback._ended
    segments,       \* callback._transcripts / callback._segments
    translation_map, \* callback._translation_map, in insertion order
    enq,            \* every item put on event_queue, in order (None included)
    deq,            \* number of items the sender has taken from event_queue
    sent,           \* events delivered to the client, in order
    total_bytes,    \* total_bytes of the handler
    stopped,        \* stopped flag of the handler
    fed,            \* chunks passed to recognizer.send_audio_frame, in order
    stopLog,        \* calls of recognizer.stop: who called, whether it raised
    hraised,        \* the call whose exception leaves the handler, or "none"
    nmsgs,          \* messages returned by websocket.receive() so far
    frames,         \* image references of the frame messages received, in order
    peer,           \* "connected" or "gone"
    closed,         \* websocket.close() was called
    current_scene,  \* current_scene of dialogue_live
    last_image_url, \* last_image_url of dialogue_live
    pending,        \* image reference under analysis
    visionLog,      \* image references passed to _analyze_scene_from_url
    cycle,          \* the dialogue cycle the sender is in
    calls,          \* engine callbacks fired so far, in order
    finished,       \* an on_error, on_complete or on_close call has returned
    audio_in,       \* lengths of the audio chunks received, in order
    engine          \* what became of constructing and starting the recognizer

vars == <<handler, mock_mode, translation_map, hpc, spc, epc, ended, segments, enq, deq, sent, total_bytes,
          stopped, fed, stopLog, hraised, nmsgs, frames, peer, closed, current_scene,
          last_image_url, pending, visionLog, cycle, calls, finished,
          audio_in, engine>>

\* Groups used in UNCHANGED.
cbVars     == <<ended, segments, calls, finished>>
sceneVars  == <<current_scene, last_image_url, pending, visionLog>>
ingestVars == <<total_bytes, fed, audio_in>>
inVars     == <<nmsgs, frames>>

\* ---------------------------------------------------------------- values
NoValue == "None"

\* An item of event_queue.
Ev(type, text, segs) ==
    [type |-> type, text |-> text, segs |-> segs,
     language |-> NoValue, translations |-> <<>>]
\* {"type": "translation", "language": language, "text": text}
TranslationEv(language, text) ==
    [Ev("translation", text, <<>>) EXCEPT !.language = language]
\* {"type": "done", "data": {..., "transcripts": ..., "translations": ...}}
DoneEv(segs, translations) ==
    [Ev("done", <<>>, segs) EXCEPT !.translations = translations]
\* The terminal marker: None.
NoneItem == Ev("None", <<>>, <<>>)

\* A message sent to the client; src is the position in enq of the queue item
\* it was produced from, 0 for a message the handler itself sends.
Out(type, text, src) == [type |-> type, text |-> text, src |-> src]

\* current_scene: None, the mapping a successful analysis gave for an image,
\* or a JSON value that is no mapping (a list, a string, a number).
NoScene == [kind |-> "none", url |-> NoValue]
Snapshot(url) == [kind |-> "snapshot", url |-> url]
NonMapping(url) == [kind |-> "nonmapping", url |-> url]

\* In mock mode chat_completion returns _mock_chat_completion(...) without any
\* remote call: a fixed text for the dialogue prompt, a fixed JSON object for
\* a prompt with image content.
MockReply == <<"r">>
MockAnalysis == "mapping"

\* The sender's locals during a dialogue cycle.
NoCycle == [src |-> 0, user_text |-> <<>>, summary |-> <<>>, reply |-> <<>>]

Init ==
    /\ handler \in Handlers
    /\ mock_mode \in BOOLEAN
    /\ hpc = "init"
    /\ spc = "none"
    /\ epc = "idle"
    /\ ended = FALSE
    /\ segments = <<>>
    /\ translation_map = <<>>
    /\ enq = <<>>
    /\ deq = 0
    /\ sent = <<>>
    /\ total_bytes = 0
    /\ stopped = FALSE
    /\ fed = <<>>
    /\ stopLog = <<>>
    /\ hraised = "none"
    /\ nmsgs = 0
    /\ frames = <<>>
    /\ peer = "connected"
    /\ closed = FALSE
    /\ current_scene = NoScene
    /\ last_image_url = NoValue
    /\ pending = NoValue
    /\ visionLog = <<>>
    /\ cycle = NoCycle
    /\ calls = <<>>
    /\ finished = FALSE
    /\ audio_in = <<>>
    /\ engine = "none"

\* ------------------------------------------------- the callback object
\* _schedule (voice) / _emit (dialogue): the put is handed to the loop.
Schedule(q, payload) == Append(q, payload)

\* A callback that announces the new fragment alone; C7_Aggregation tells it
\* from Aggregate.
AggregateDelta(segs) == segs[Len(segs)]

\* " ".join(self._transcripts).strip()
Aggregate(segs) == Strip(Join(segs))

\* Error messages, kept apart by a tag.
OversizeMsg  == <<"oversize">>
EngineErrMsg == <<"recognizer error">>
StartErrMsg  == <<"start failed">>
ReasonErrMsg == <<"reasoning failed">>
TtsErrMsg    == <<"tts failed">>
VisionErrMsg == <<"vision failed">>
FeedErrMsg   == <<"send_audio_frame failed">>
StopErrMsg   == <<"stop failed">>

\* A callback fired by the engine: its name and the transcription text it
\* carries (on_event).
Call(cb, text) == [cb |-> cb, text |-> text, trans |-> <<>>]

\* The engine fires callbacks, one at a time and on its own thread, from the
\* moment start is called until a call of recognizer.stop has returned or
\* raised: what a blocking stop makes the engine fire happens before the
\* step that stands for its return.
CanFire == /\ engine = "running"
           /\ hpc # "returned"
           /\ stopLog = <<>>
           /\ epc = "idle"
           /\ Len(calls) + nmsgs < MaxEvents

\* The read of _ended in _finish ("if not self._ended").  ensure_finished reads
\* the flag once more before it calls _finish; _ended only ever goes from False
\* to True, so the two reads act as the second one alone.
FinishRead(after, setting) == IF ended THEN after ELSE setting

\* _finish run without another thread in between: None is scheduled unless
\* _ended is set.
FinishNow(q) == IF ended THEN q ELSE Schedule(q, NoneItem)

\* The handlers whose callback object is called from the loop thread as well.
SharedCallback == handler \in TranslationHandlers

\* How the engine thread goes through _finish after scheduling what its
\* callback had to schedule (q).  In voice_translate_live the loop thread calls
\* into the same callback object (finish_with_error, ensure_finished), so the
\* read of _ended and the write are steps of their own.  In dialogue_live the
\* engine thread alone touches the callback object and alone puts on the
\* queue, so its _finish runs as one step.
EngineFinish(q) ==
    IF SharedCallback
       THEN /\ enq' = q
            /\ epc' = "fin_B"
            /\ UNCHANGED <<ended, finished>>
       ELSE /\ enq' = FinishNow(q)
            /\ ended' = TRUE
            /\ finished' = TRUE
            /\ UNCHANGED epc

on_open ==
    /\ CanFire
    /\ enq' = Schedule(enq, Ev("ready", <<>>, <<>>))
    /\ calls' = Append(calls, Call("on_open", <<>>))
    /\ UNCHANGED <<handler, mock_mode, translation_map, hpc, spc, epc, ended, segments, finished, deq,
                   sent, ingestVars, stopped, stopLog, hraised, inVars, peer, closed,
                   sceneVars, cycle, engine>>

\* self._translation_map[language] = text: the entry of a language the
\* dict already holds is overwritten in place, a new language is added last.
AddTranslation(map, language, text) ==
    Append(map, [language |-> language, text |-> text])
PutTranslation(map, language, text) ==
    IF \E i \in 1..Len(map) : map[i].language = language
       THEN [i \in 1..Len(map) |->
                IF map[i].language = language
                   THEN [language |-> language, text |-> text]
                   ELSE map[i]]
       ELSE AddTranslation(map, language, text)

\* The loop over translation_result's languages: a language whose translation
\* has an empty text is skipped, another is stored.
RECURSIVE StoreTranslations(_, _)
StoreTranslations(map, trans) ==
    IF trans = <<>> THEN map
    ELSE LET t == Head(trans)
         IN  StoreTranslations(IF t.text # <<>>
                                  THEN PutTranslation(map, t.language, t.text)
                                  ELSE map,
                               Tail(trans))

\* The same loop's scheduled payloads: one translation event for each stored
\* language, in the order of the language list.
RECURSIVE ScheduleTranslations(_, _)
ScheduleTranslations(q, trans) ==
    IF trans = <<>> THEN q
    ELSE LET t == Head(trans)
         IN  ScheduleTranslations(IF t.text # <<>>
                                     THEN Schedule(q, TranslationEv(t.language, t.text))
                                     ELSE q,
                                  Tail(trans))

\* on_event: a fragment that is empty after strip() changes nothing; another
\* is appended and the whole aggregate re-announced.  The translation handler
\* then stores and announces the translations; the dialogue callback has no
\* translation part.
on_event(frag, trans) ==
    /\ CanFire
    /\ calls' = Append(calls, [Call("on_event", frag) EXCEPT !.trans = trans])
    /\ segments' = IF Strip(frag) # <<>> THEN Append(segments, Strip(frag))
                                         ELSE segments
    /\ translation_map' = IF handler \in TranslationHandlers
                             THEN StoreTranslations(translation_map, trans)
                             ELSE translation_map
    /\ LET announced == IF Strip(frag) # <<>>
                           THEN Schedule(enq, Ev("transcript", Aggregate(segments'), <<>>))
                           ELSE enq
       IN  enq' = IF handler \in TranslationHandlers
                     THEN ScheduleTranslations(announced, trans)
                                       ELSE announced
    /\ UNCHANGED <<handler, mock_mode, hpc, spc, epc, ended, finished, deq, sent, ingestVars,
                   stopped, stopLog, hraised, inVars, peer, closed, sceneVars, cycle,
                   engine>>

\* on_error: the error payload is scheduled, then _finish.
on_error ==
    /\ CanFire
    /\ calls' = Append(calls, Call("on_error", <<>>))
    /\ EngineFinish(Schedule(enq, Ev("error", EngineErrMsg, <<>>)))
    /\ UNCHANGED <<handler, mock_mode, translation_map, hpc, spc, segments, deq, sent, ingestVars,
                   stopped, stopLog, hraised, inVars, peer, closed, sceneVars, cycle,
                   engine>>

\* on_complete: the done payload carries a copy of the segments, then _finish.
on_complete ==
    /\ CanFire
    /\ calls' = Append(calls, Call("on_complete", <<>>))
    /\ EngineFinish(Schedule(enq, IF handler \in TranslationHandlers
                                      THEN DoneEv(segments, translation_map)
                                      ELSE Ev("done", <<>>, segments)))
    /\ UNCHANGED <<handler, mock_mode, translation_map, hpc, spc, segments, deq, sent, ingestVars,
                   stopped, stopLog, hraised, inVars, peer, closed, sceneVars, cycle,
                   engine>>

\* on_close: ensure_finished (voice) / _finish (dialogue), nothing scheduled
\* before.
on_close ==
    /\ CanFire
    /\ calls' = Append(calls, Call("on_close", <<>>))
    /\ EngineFinish(enq)
    /\ UNCHANGED <<handler, mock_mode, translation_map, hpc, spc, segments, deq, sent, ingestVars,
                   stopped, stopLog, hraised, inVars, peer, closed, sceneVars, cycle,
                   engine>>

\* The engine thread reaches "if not self._ended" inside _finish.
EngineFinishRead ==
    /\ epc = "fin_B"
    /\ epc' = FinishRead("idle", "fin_C")
    /\ finished' = (finished \/ ended)
    /\ UNCHANGED <<handler, mock_mode, translation_map, hpc, spc, ended, segments, calls, enq, deq, sent,
                   ingestVars,
                   stopped, stopLog, hraised, inVars, peer, closed, sceneVars, cycle,
                   engine>>

\* The engine thread, having read _ended as False, sets it and schedules None.
\* (The write and the schedule are taken together: between them another
\* thread can only read True, which it also does after both.)
EngineFinishSet ==
    /\ epc = "fin_C"
    /\ ended' = TRUE
    /\ enq' = Schedule(enq, NoneItem)
    /\ epc' = "idle"
    /\ finished' = TRUE
    /\ UNCHANGED <<handler, mock_mode, translation_map, hpc, spc, segments, calls, deq, sent, ingestVars,
                   stopped, stopLog, hraised, inVars, peer, closed, sceneVars, cycle,
                   engine>>

\* -------------------------------------------------------------- the client
\* The peer goes away (closes the connection or drops off the network).
ClientLeaves ==
    /\ peer = "connected"
    /\ hpc # "returned"
    /\ peer' = "gone"
    /\ UNCHANGED <<handler, mock_mode, translation_map, hpc, spc, epc, cbVars, enq, deq, sent, ingestVars,
                   stopped, stopLog, hraised, inVars, closed, sceneVars, cycle, engine>>

\* ------------------------------------------------------------- the handler
\* Synchronous sections of the loop thread: while the handler is in one the
\* sender cannot run, and the other way round.
HandlerSync == {"over_B", "over_C", "ens_C"}
SenderSync  == {"ens_C"}

\* A guard that refuses a total equal to the ceiling; C4_ByteBudget tells it
\* from OverCeiling.
OverCeilingAtLimit(total) == total >= MAX_AUDIO_BYTES

\* total_bytes > MAX_AUDIO_BYTES
OverCeiling(total) == total > MAX_AUDIO_BYTES

\* A handler that creates the sender task before it knows that the engine
\* runs; C15_StartFailure tells it from SenderAfterStart.
SenderAlwaysCreated(outcome) == "get"

\* sender_task = asyncio.create_task(sender()) is reached only when neither
\* the construction nor recognizer.start() raised: the except branches return.
SenderAfterStart(outcome) == IF outcome = "running" THEN "get" ELSE "none"

\* Construction of the recognizer and recognizer.start(): either may raise.
\* voice sends the error with websocket.send_text, whose exception (peer
\* gone) leaves the handler before websocket.close(); dialogue uses _safe_send.
StartEngine(outcome) ==
    /\ hpc = "init"
    /\ spc' = SenderAfterStart(outcome)
    /\ IF outcome = "running"
          THEN /\ hpc' = "recv"
               /\ UNCHANGED <<sent, hraised, closed>>
          ELSE /\ hpc' = "returned"
               /\ IF peer = "connected"
                     THEN /\ sent' = Append(sent, Out("error", StartErrMsg, 0))
                          /\ closed' = TRUE
                          /\ UNCHANGED hraised
                     ELSE /\ UNCHANGED sent
                          /\ closed' = (handler = "dialogue")
                          /\ hraised' = IF handler = "voice" THEN "send_text" ELSE "none"
    /\ engine' = outcome
    /\ UNCHANGED <<handler, mock_mode, translation_map, epc, cbVars, enq, deq, ingestVars, stopped, stopLog,
                   inVars, peer, sceneVars, cycle>>

CanReceive == /\ hpc = "recv"
              /\ spc \notin SenderSync
              /\ Len(calls) + nmsgs < MaxEvents

\* A recognizer handed each chunk ahead of those it already has;
\* C24_ForwardedInOrder tells it from SendAudioFrame.
SendAudioFrameAhead(q, chunk) == <<chunk>> \o q

\* recognizer.send_audio_frame(chunk): the chunk goes to the recognizer after
\* those forwarded before it.
SendAudioFrame(q, chunk) == Append(q, chunk)

\* A binary message of n > 0 bytes.
RecvAudio(n, raises) ==
    /\ CanReceive
    /\ nmsgs' = nmsgs + 1
    /\ audio_in' = Append(audio_in, n)
    /\ total_bytes' = total_bytes + n
    /\ IF OverCeiling(total_bytes')
          THEN /\ IF handler = "voice"
                     THEN \* callback.finish_with_error: the payload is scheduled,
                          \* then _finish checks _ended
                          /\ enq' = Schedule(enq, Ev("error", OversizeMsg, <<>>))
                          /\ hpc' = "over_B"
                          /\ UNCHANGED sent
                     ELSE \* _safe_send; break
                          /\ sent' = IF peer = "connected"
                                        THEN Append(sent, Out("error", OversizeMsg, 0))
                                        ELSE sent
                          /\ hpc' = "fin_stop"
                          /\ UNCHANGED enq
               /\ UNCHANGED <<fed, hraised>>
          ELSE \* recognizer.send_audio_frame(chunk), which may raise
               /\ fed' = SendAudioFrame(fed, n)
               /\ hraised' = IF raises THEN "send_audio_frame" ELSE hraised
               /\ hpc' = IF raises THEN "fin_stop" ELSE hpc
               /\ UNCHANGED <<enq, sent>>
    /\ UNCHANGED <<handler, mock_mode, translation_map, spc, epc, cbVars, deq, stopped, stopLog, frames, peer,
                   closed, sceneVars, cycle, engine>>

\* {"type": "stop"}: recognizer.stop() outside any try/except.  voice breaks
\* out of the loop, skips the stop of the finally block and is in
\* callback.ensure_finished() at once; dialogue sets stopped and goes on
\* receiving.
RecvStop(raises) ==
    /\ CanReceive
    /\ nmsgs' = nmsgs + 1
    /\ stopLog' = Append(stopLog, [by |-> "message", raised |-> raises])
    /\ IF raises
          THEN /\ hraised' = "stop"
               /\ hpc' = "fin_stop"
               /\ UNCHANGED stopped
          ELSE /\ stopped' = TRUE
               /\ hpc' = IF handler = "voice"
                            THEN FinishRead("await_sender", "ens_C")
                            ELSE "recv"
               /\ UNCHANGED hraised
    /\ UNCHANGED <<handler, mock_mode, translation_map, spc, epc, cbVars, enq, deq, sent, ingestVars, frames,
                   peer, closed, sceneVars, cycle, engine>>

\* A message that changes nothing: empty bytes, text that is not JSON, a JSON
\* object of another type, a frame without an image (and, for voice, a frame).
RecvOther ==
    /\ CanReceive
    /\ nmsgs' = nmsgs + 1
    /\ UNCHANGED <<handler, mock_mode, translation_map, hpc, spc, epc, cbVars, enq, deq, sent, ingestVars,
                   stopped, stopLog, hraised, frames, peer, closed, sceneVars, cycle,
                   engine>>

\* websocket.disconnect (or WebSocketDisconnect raised by receive): break.
RecvDisconnect ==
    /\ hpc = "recv"
    /\ spc \notin SenderSync
    /\ peer = "gone"
    /\ hpc' = "fin_stop"
    /\ UNCHANGED <<handler, mock_mode, translation_map, spc, epc, cbVars, enq, deq, sent, ingestVars, stopped,
                   stopLog, hraised, inVars, peer, closed, sceneVars, cycle, engine>>

\* finally: "if not stopped: try: recognizer.stop() except Exception: pass".
\* voice goes on to callback.ensure_finished() and reads _ended, dialogue goes
\* to "await sender_task".
FinallyStop(raises) ==
    /\ hpc = "fin_stop"
    /\ spc \notin SenderSync
    /\ stopLog' = IF stopped THEN stopLog
                  ELSE Append(stopLog, [by |-> "finally", raised |-> raises])
    /\ hpc' = IF handler = "voice"
                 THEN FinishRead("await_sender", "ens_C")
                 ELSE "await_sender"
    /\ UNCHANGED <<handler, mock_mode, translation_map, spc, epc, cbVars, enq, deq, sent, ingestVars, stopped,
                   hraised, inVars, peer, closed, sceneVars, cycle, engine>>

\* Where the handler goes on after a call into the callback object.
AfterFinish(pc) == IF pc \in {"over_B", "over_C"} THEN "fin_stop" ELSE "await_sender"

\* The loop thread, in finish_with_error after scheduling the error, reads
\* _ended.
HandlerFinishRead ==
    /\ hpc = "over_B"
    /\ hpc' = FinishRead(AfterFinish(hpc), "over_C")
    /\ UNCHANGED <<handler, mock_mode, translation_map, spc, epc, cbVars, enq, deq, sent, ingestVars, stopped,
                   stopLog, hraised, inVars, peer, closed, sceneVars, cycle, engine>>

\* The loop thread, having read _ended as False, sets it and schedules None.
HandlerFinishSet ==
    /\ hpc \in {"over_C", "ens_C"}
    /\ ended' = TRUE
    /\ enq' = Schedule(enq, NoneItem)
    /\ hpc' = AfterFinish(hpc)
    /\ UNCHANGED <<handler, mock_mode, translation_map, spc, epc, segments, calls, finished, deq, sent,
                   ingestVars, stopped,
                   stopLog, hraised, inVars, peer, closed, sceneVars, cycle, engine>>

\* "await sender_task", then websocket.close() and the handler is over.
AwaitSender ==
    /\ hpc = "await_sender"
    /\ spc = "done"
    /\ closed' = TRUE
    /\ hpc' = "returned"
    /\ UNCHANGED <<handler, mock_mode, translation_map, spc, epc, cbVars, enq, deq, sent, ingestVars, stopped,
                   stopLog, hraised, inVars, peer, sceneVars, cycle, engine>>

\* A guard without the comparison with last_image_url; C9_Dedup tells it from
\* NeedsAnalysis.
AlwaysAnalyze(url, last) == TRUE

\* image_url and image_url != last_image_url
NeedsAnalysis(url, last) == url # last

\* {"type": "frame", "image_url": url}: a reference equal to the last analysed
\* one is skipped without a word; another starts _analyze_scene_from_url.
RecvFrame(url) ==
    /\ CanReceive
    /\ handler = "dialogue"
    /\ nmsgs' = nmsgs + 1
    /\ frames' = Append(frames, url)
    /\ IF NeedsAnalysis(url, last_image_url)
          THEN /\ hpc' = "analyzing"
               /\ pending' = url
               /\ visionLog' = Append(visionLog, url)
          ELSE UNCHANGED <<hpc, pending, visionLog>>
    /\ UNCHANGED <<handler, mock_mode, translation_map, spc, epc, cbVars, enq, deq, sent, ingestVars, stopped,
                   stopLog, hraised, peer, closed, current_scene, last_image_url,
                   cycle, engine>>

\* _analyze_scene_from_url returns: json.loads of the reply (a mapping, or any
\* other JSON value), the fallback mapping, or it raises.  current_scene and
\* last_image_url are assigned before the scene event is built, and
\* {"type": "scene", **scene} raises TypeError for a value that is no mapping.
AnalyzeDone(outcome) ==
    /\ hpc = "analyzing"
    /\ mock_mode => outcome = MockAnalysis
    /\ hpc' = "recv"
    /\ pending' = NoValue
    /\ IF outcome = "raises"
          THEN UNCHANGED <<current_scene, last_image_url>>
          ELSE /\ last_image_url' = pending
               /\ current_scene' = IF outcome = "mapping" THEN Snapshot(pending)
                                   ELSE IF outcome = "null" THEN NoScene
                                   ELSE NonMapping(pending)
    /\ sent' = IF peer = "gone" THEN sent
               ELSE IF outcome = "mapping"
                       THEN Append(sent, Out("scene", <<pending>>, 0))
                       ELSE Append(sent, Out("error", VisionErrMsg, 0))
    /\ UNCHANGED <<handler, mock_mode, translation_map, spc, epc, cbVars, enq, deq, ingestVars, stopped,
                   stopLog, hraised, inVars, peer, closed, visionLog, cycle, engine>>

\* -------------------------------------------------------------- the sender
CanSend == hpc \notin HandlerSync

\* A queue that hands out its newest item; C5_SendOrder tells it from
\* NextItem.
NewestItem(q, d) == q[Len(q)]

\* payload = await event_queue.get(): the item at the head of the queue.
NextItem(q, d) == q[d + 1]

\* The sender of voice_translate_live: every item but None is sent as it is;
\* a send that raises (peer gone) leads to callback.ensure_finished(), which
\* reads _ended.
VoiceSenderGet ==
    /\ handler = "voice"
    /\ spc = "get"
    /\ CanSend
    /\ deq < Len(enq)
    /\ deq' = deq + 1
    /\ LET item == NextItem(enq, deq) IN
         IF item = NoneItem
            THEN /\ spc' = "done"
                 /\ UNCHANGED sent
            ELSE IF peer = "connected"
                    THEN /\ sent' = Append(sent, Out(item.type, item.text, deq + 1))
                         /\ UNCHANGED spc
                    ELSE /\ spc' = FinishRead("done", "ens_C")
                         /\ UNCHANGED sent
    /\ UNCHANGED <<handler, mock_mode, translation_map, hpc, epc, cbVars, enq, ingestVars, stopped, stopLog,
                   hraised, inVars, peer, closed, sceneVars, cycle, engine>>

\* The sender, having read _ended as False, sets it and schedules None.
SenderFinishSet ==
    /\ spc = "ens_C"
    /\ ended' = TRUE
    /\ enq' = Schedule(enq, NoneItem)
    /\ spc' = "done"
    /\ UNCHANGED <<handler, mock_mode, translation_map, hpc, epc, segments, calls, finished, deq, sent,
                   ingestVars, stopped,
                   stopLog, hraised, inVars, peer, closed, sceneVars, cycle, engine>>

\* How many of a run of _safe_send calls succeed: all of them, or the peer
\* goes away before one of them and the sender breaks out of its loop.
Cuts(outs) == IF peer = "gone" THEN {0} ELSE 1..Len(outs)

\* A run of _safe_send calls, each followed by "if not ok: break".
SafeSendAll(outs, continue) ==
    \E k \in Cuts(outs) :
        /\ sent' = sent \o SubSeq(outs, 1, k)
        /\ peer' = IF k < Len(outs) THEN "gone" ELSE peer
        /\ spc' = IF k = Len(outs) THEN continue ELSE "done"

\* (current_scene or {}).get("summary") or ""
SummaryOf(scene) == IF scene.kind = "snapshot" THEN <<scene.url>> ELSE <<>>

\* A sender that takes the next item while a cycle still awaits its reply or
\* its audio; C14_OneCycleInFlight tells it from AtQueue.
AtQueueOrAwaiting(pc) == pc \in {"get", "reasoning", "synth"}

\* The sender of dialogue_live awaits event_queue.get() at the head of its
\* loop only: a cycle runs inside the loop body.
AtQueue(pc) == pc = "get"

\* The sender of dialogue_live takes an item: None ends it; ready, transcript
\* and error are passed on; done starts a dialogue cycle.
DialogueSenderGet ==
    /\ handler = "dialogue"
    /\ AtQueue(spc)
    /\ CanSend
    /\ deq < Len(enq)
    /\ deq' = deq + 1
    /\ LET item == NextItem(enq, deq)
           user_text == Strip(Join(item.segs))
       IN  IF item = NoneItem
              THEN /\ spc' = "done"
                   /\ UNCHANGED <<sent, peer, cycle>>
           ELSE IF item.type # "done"
              THEN /\ SafeSendAll(<<Out(item.type, item.text, deq + 1)>>, "get")
                   /\ UNCHANGED cycle
           ELSE IF user_text = <<>>
              THEN /\ SafeSendAll(<<Out("done", <<>>, deq + 1)>>, "get")
                   /\ UNCHANGED cycle
           ELSE IF current_scene.kind = "nonmapping"
              THEN \* .get of a list, str or number: AttributeError, swallowed
                   \* by the sender's outer "except Exception: pass"
                   /\ spc' = "done"
                   /\ UNCHANGED <<sent, peer, cycle>>
              ELSE /\ spc' = "reasoning"
                   /\ cycle' = [src |-> deq + 1, user_text |-> user_text,
                                summary |-> SummaryOf(current_scene), reply |-> <<>>]
                   /\ UNCHANGED <<sent, peer>>
    /\ UNCHANGED <<handler, mock_mode, translation_map, hpc, epc, cbVars, enq, ingestVars, stopped, stopLog,
                   hraised, inVars, closed, sceneVars, engine>>

\* Reply texts chat_completion may return (it strips them): empty or not.
Replies == { <<>>, <<"r">> }

\* chat_completion returns or raises.
DialogueReasoned(raises, reply) ==
    /\ spc = "reasoning"
    /\ CanSend
    /\ mock_mode => (~raises /\ reply = MockReply)
    /\ IF raises
          THEN /\ SafeSendAll(<<Out("error", ReasonErrMsg, cycle.src),
                                Out("done", <<>>, cycle.src)>>, "get")
               /\ cycle' = NoCycle
          ELSE /\ SafeSendAll(<<Out("assistant_text", Strip(reply), cycle.src)>>, "synth")
               /\ cycle' = [cycle EXCEPT !.reply = reply]
    /\ UNCHANGED <<handler, mock_mode, translation_map, hpc, epc, cbVars, enq, deq, ingestVars, stopped, stopLog,
                   hraised, inVars, closed, sceneVars, engine>>

\* _synthesize_speech(text): ValueError for a blank text; otherwise the remote
\* audio, or mock_tts_audio_bytes(text) when the remote call fails.
\* SynthesisRaisesOffline is a synthesis that passes the remote failure on;
\* C25_PlaceholderAudio tells it from SynthesisRaises.
SynthesisRaisesOffline(text, remote_ok) == Strip(text) = <<>> \/ ~remote_ok
SynthesisRaises(text, remote_ok) == Strip(text) = <<>>

\* _synthesize_speech returns or raises, then the cycle's done.
DialogueSynthesized(remote_ok) ==
    /\ spc = "synth"
    /\ CanSend
    /\ mock_mode => ~remote_ok
    /\ IF SynthesisRaises(cycle.reply, remote_ok)
          THEN SafeSendAll(<<Out("error", TtsErrMsg, cycle.src),
                             Out("done", <<>>, cycle.src)>>, "get")
          ELSE SafeSendAll(<<Out("assistant_audio",
                                 IF remote_ok THEN <<"remote">> ELSE <<"mock">>,
                                 cycle.src),
                             Out("done", <<>>, cycle.src)>>, "get")
    /\ cycle' = NoCycle
    /\ UNCHANGED <<handler, mock_mode, translation_map, hpc, epc, cbVars, enq, deq, ingestVars, stopped, stopLog,
                   hraised, inVars, closed, sceneVars, engine>>

\* ------------------------------------------------------- the specification
Next ==
    \/ \E o \in {"running", "construct_raises", "start_raises"} : StartEngine(o)
    \/ ClientLeaves
    \/ \E n \in ChunkSizes, r \in BOOLEAN : RecvAudio(n, r)
    \/ \E r \in BOOLEAN : RecvStop(r)
    \/ RecvOther
    \/ \E u \in Urls : RecvFrame(u)
    \/ \E o \in {"mapping", "nonmapping", "null", "raises"} : AnalyzeDone(o)
    \/ RecvDisconnect
    \/ \E r \in BOOLEAN : FinallyStop(r)
    \/ HandlerFinishRead
    \/ HandlerFinishSet
    \/ AwaitSender
    \/ VoiceSenderGet
    \/ SenderFinishSet
    \/ DialogueSenderGet
    \/ \E r \in BOOLEAN, t \in Replies : DialogueReasoned(r, t)
    \/ \E ok \in BOOLEAN : DialogueSynthesized(ok)
    \/ on_open
    \/ \E f \in Fragments : on_event(f, NoTranslation)
    \/ on_error
    \/ on_complete
    \/ on_close
    \/ EngineFinishRead
    \/ EngineFinishSet

Spec == Init /\ [][Next]_vars

\* What runs on without any outside event: the loop thread resumes the handler
\* and the sender whenever they can go on, calls dispatched to the recognizer
\* and to the remote services return, and the engine thread finishes the
\* callback it is in.  The client sending a message or leaving, and the
\* engine firing a callback, are never forced.
HandlerProgress ==
    \/ RecvDisconnect
    \/ \E r \in BOOLEAN : FinallyStop(r)
    \/ HandlerFinishRead
    \/ HandlerFinishSet
    \/ AwaitSender
    \/ \E o \in {"mapping", "nonmapping", "null", "raises"} : AnalyzeDone(o)

SenderProgress ==
    \/ VoiceSenderGet
    \/ SenderFinishSet
    \/ DialogueSenderGet
    \/ \E r \in BOOLEAN, t \in Replies : DialogueReasoned(r, t)
    \/ \E ok \in BOOLEAN : DialogueSynthesized(ok)

EngineProgress == EngineFinishRead \/ EngineFinishSet

FairSpec ==
    /\ Spec
    /\ WF_vars(HandlerProgress)
    /\ WF_vars(SenderProgress)
    /\ WF_vars(EngineProgress)

\* The translation callback on its own: a translation session whose recognizer
\* has started, the engine delivering results that carry translations.
TranslationNext ==
    \/ StartEngine("running")
    \/ \E f \in Fragments, t \in TranslationResults : on_event(f, t)
    \/ on_complete
    \/ EngineFinishRead
    \/ EngineFinishSet

TranslationInit == Init /\ handler = "voice"

TranslationSpec == TranslationInit /\ [][TranslationNext]_vars

\* ------------------------------------------------ voice_translate_stream
\* The live path of voice_translate_stream.  hpc is the position of the
\* drive_recognizer task, spc that of the live_event_stream generator; the
\* variables of the websocket handlers stay as they are.
streamFixed == <<handler, mock_mode, translation_map, epc, segments, calls, finished,
                 audio_in, total_bytes, stopped, hraised, inVars, closed,
                 sceneVars, cycle>>

StreamInit ==
    /\ handler = "stream"
    /\ mock_mode = FALSE
    /\ \E clip \in Clips : /\ audio_in = clip.chunks
                          /\ total_bytes = clip.bytes
    /\ hpc = "init"
    /\ spc = "none"
    /\ epc = "idle"
    /\ ended = FALSE
    /\ segments = <<>>
    /\ translation_map = <<>>
    /\ enq = <<>>
    /\ deq = 0
    /\ sent = <<>>
    /\ stopped = FALSE
    /\ fed = <<>>
    /\ stopLog = <<>>
    /\ hraised = "none"
    /\ nmsgs = 0
    /\ frames = <<>>
    /\ peer = "connected"
    /\ closed = FALSE
    /\ current_scene = NoScene
    /\ last_image_url = NoValue
    /\ pending = NoValue
    /\ visionLog = <<>>
    /\ cycle = NoCycle
    /\ calls = <<>>
    /\ finished = FALSE
    /\ engine = "none"

\* TranslationRecognizerRealtime(**kwargs): when it raises the response is the
\* one error frame; otherwise the response iterates live_event_stream, which
\* creates the driver task and awaits the queue.
StreamConstruct(raises) ==
    /\ handler = "stream"
    /\ hpc = "init"
    /\ IF raises
          THEN /\ engine' = "construct_raises"
               /\ sent' = IF peer = "connected"
                             THEN Append(sent, Out("error", StartErrMsg, 0))
                             ELSE sent
               /\ hpc' = "returned"
               /\ spc' = "done"
          ELSE /\ hpc' = "drv_start"
               /\ spc' = "get"
               /\ UNCHANGED <<engine, sent>>
    /\ UNCHANGED <<streamFixed, ended, enq, deq, fed, stopLog, peer>>

\* Sections of the driver that run on the loop thread without an await: the
\* generator cannot run in between.
DriverSync == {"drv_B", "drv_C"}

\* recognizer.start returns or raises; after it the length test (lines
\* 324-327) and the way into the feed loop.  An exception goes to
\* callback.finish_with_error(str(exc)).
DriverStart(raises) ==
    /\ hpc = "drv_start"
    /\ spc = "get"
    /\ IF raises
          THEN /\ engine' = "start_raises"
               /\ enq' = Schedule(enq, Ev("error", StartErrMsg, <<>>))
               /\ hpc' = "drv_B"
          ELSE /\ engine' = "running"
               /\ IF OverCeiling(total_bytes)
                     THEN /\ enq' = Schedule(enq, Ev("error", OversizeMsg, <<>>))
                          /\ hpc' = "drv_B"
                     ELSE /\ enq' = enq
                          /\ hpc' = IF audio_in = <<>> THEN "drv_stop" ELSE "drv_feed"
    /\ UNCHANGED <<streamFixed, spc, ended, deq, sent, fed, stopLog, peer>>

\* recognizer.send_audio_frame(chunk) for the next chunk of the clip.
DriverFeed(raises) ==
    /\ hpc = "drv_feed"
    /\ spc = "get"
    /\ fed' = SendAudioFrame(fed, audio_in[Len(fed) + 1])
    /\ IF raises
          THEN /\ enq' = Schedule(enq, Ev("error", FeedErrMsg, <<>>))
               /\ hpc' = "drv_B"
          ELSE /\ enq' = enq
               /\ hpc' = IF Len(fed') = Len(audio_in) THEN "drv_stop" ELSE "drv_feed"
    /\ UNCHANGED <<streamFixed, spc, ended, deq, sent, stopLog, peer, engine>>

\* recognizer.stop() after the last chunk, then the finally block's
\* callback.ensure_finished(); a stop that raises goes through
\* finish_with_error first.
DriverStop(raises) ==
    /\ hpc = "drv_stop"
    /\ spc = "get"
    /\ stopLog' = Append(stopLog, [by |-> "driver", raised |-> raises])
    /\ enq' = IF raises THEN Schedule(enq, Ev("error", StopErrMsg, <<>>)) ELSE enq
    /\ hpc' = "drv_B"
    /\ UNCHANGED <<streamFixed, spc, ended, deq, sent, fed, peer, engine>>

\* The driver reads _ended (in finish_with_error's _finish or in
\* ensure_finished; after a finish_with_error the flag is set and the
\* ensure_finished of the finally block does nothing).
DriverFinishRead ==
    /\ hpc = "drv_B"
    /\ hpc' = FinishRead("returned", "drv_C")
    /\ UNCHANGED <<streamFixed, spc, ended, enq, deq, sent, fed, stopLog, peer, engine>>

\* The driver, having read _ended as False, sets it and schedules None.
DriverFinishSet ==
    /\ hpc = "drv_C"
    /\ ended' = TRUE
    /\ enq' = Schedule(enq, NoneItem)
    /\ hpc' = "returned"
    /\ UNCHANGED <<streamFixed, spc, deq, sent, fed, stopLog, peer, engine>>

\* payload = await event_queue.get(): None leaves the loop, anything else is
\* yielded as an SSE frame.
StreamGet ==
    /\ handler = "stream"
    /\ spc = "get"
    /\ hpc \notin DriverSync
    /\ peer = "connected"
    /\ deq < Len(enq)
    /\ deq' = deq + 1
    /\ LET item == NextItem(enq, deq)
       IN  IF item = NoneItem
              THEN /\ spc' = "closing"
                   /\ UNCHANGED sent
              ELSE /\ sent' = Append(sent, Out(item.type, item.text, deq + 1))
                   /\ UNCHANGED spc
    /\ UNCHANGED <<streamFixed, hpc, ended, enq, fed, stopLog, peer, engine>>

\* The client has gone: the response closes the generator where it waits.
StreamAbandoned ==
    /\ handler = "stream"
    /\ spc = "get"
    /\ hpc \notin DriverSync
    /\ peer = "gone"
    /\ spc' = "closing"
    /\ UNCHANGED <<streamFixed, hpc, ended, enq, deq, sent, fed, stopLog, peer, engine>>

\* The generator's finally block finds the driver not done and cancels it:
\* CancelledError is raised at the driver's await, passes "except Exception"
\* and runs the finally block's ensure_finished.  The call the driver awaited
\* in a worker thread goes through there or had not been made yet (through).
DriverCancelled(through) ==
    /\ handler = "stream"
    /\ spc = "closing"
    /\ hpc \in {"drv_start", "drv_feed", "drv_stop"}
    /\ engine' = IF hpc = "drv_start"
                    THEN (IF through THEN "running" ELSE "start_raises")
                    ELSE engine
    /\ fed' = IF hpc = "drv_feed" /\ through
                 THEN SendAudioFrame(fed, audio_in[Len(fed) + 1])
                 ELSE fed
    /\ stopLog' = IF hpc = "drv_stop" /\ through
                     THEN Append(stopLog, [by |-> "driver", raised |-> FALSE])
                     ELSE stopLog
    /\ hpc' = "drv_B"
    /\ spc' = "await_driver"
    /\ UNCHANGED <<streamFixed, ended, enq, deq, sent, peer>>

\* The driver is done (or "await driver" returns) and the generator ends.
StreamEnds ==
    /\ handler = "stream"
    /\ spc \in {"closing", "await_driver"}
    /\ hpc = "returned"
    /\ spc' = "done"
    /\ UNCHANGED <<streamFixed, hpc, ended, enq, deq, sent, fed, stopLog, peer, engine>>

StreamNext ==
    \/ \E r \in BOOLEAN : StreamConstruct(r)
    \/ \E r \in BOOLEAN : DriverStart(r)
    \/ \E r \in BOOLEAN : DriverFeed(r)
    \/ \E r \in BOOLEAN : DriverStop(r)
    \/ DriverFinishRead
    \/ DriverFinishSet
    \/ StreamGet
    \/ StreamAbandoned
    \/ \E t \in BOOLEAN : DriverCancelled(t)
    \/ StreamEnds
    \/ ClientLeaves
    \/ on_open
    \/ \E f \in Fragments : on_event(f, NoTranslation)
    \/ on_error
    \/ on_complete
    \/ on_close
    \/ EngineFinishRead
    \/ EngineFinishSet

StreamSpec == StreamInit /\ [][StreamNext]_vars

\* ------------------------------------------------------------------ claims
\* Helpers of the claims' formulas.
RECURSIVE SumSeq(_)
SumSeq(q) == IF q = <<>> THEN 0 ELSE Head(q) + SumSeq(Tail(q))

\* Positions of the items of q that satisfy Test.
Positions(q, Test(_)) == { i \in 1..Len(q) : Test(q[i]) }

IsNone(item) == item = NoneItem
\* Terminal markers put on event_queue so far.
Markers == Cardinality(Positions(enq, IsNone))

\* C1: once an on_complete, on_error or on_close call has returned, exactly
\* one terminal marker (None) has been put on the queue, and at no time have
\* two been put, whatever the handler's own ensure_finished and
\* finish_with_error calls do.
C1_ExactlyOneMarker ==
    /\ Markers <= 1
    /\ finished => Markers = 1

\* The handler is over after a session whose engine was started.
Returned == hpc = "returned" /\ engine = "running"

\* C2: when a session whose engine was started is over, whichever way it
\* ended, recognizer.stop has been called exactly once and the sender task has
\* run to completion.
C2_StopOnceSenderJoined ==
    Returned => (Len(stopLog) = 1 /\ spc = "done")

IsStopMessage(call) == call.by = "message"
\* The client has sent stop, or has gone away, in a session whose engine runs.
Stopping ==
    /\ engine = "running"
    /\ \/ peer = "gone"
       \/ Positions(stopLog, IsStopMessage) # {}

\* C3: once the client has sent stop or has disconnected, the handler returns,
\* even if the engine fires no callback any more.
C3_HandlerReturns == Stopping ~> (hpc = "returned")

\* The longest prefix of the chunk lengths q whose sum stays within ceiling.
RECURSIVE WithinCeiling(_, _)
WithinCeiling(q, room) ==
    IF q = <<>> \/ Head(q) > room THEN <<>>
    ELSE <<Head(q)>> \o WithinCeiling(Tail(q), room - Head(q))

IsOversizeError(item) == item.type = "error" /\ item.text = OversizeMsg
\* The oversize error path was taken: voice puts the error on the queue,
\* dialogue sends it (to a peer that is still there).
OversizeSignalled ==
    IF handler = "voice"
       THEN Positions(enq, IsOversizeError) # {}
       ELSE peer = "gone" \/ Positions(sent, IsOversizeError) # {}

\* C4: the chunks forwarded to recognizer.send_audio_frame are exactly the
\* chunks received while the running total stays at or below MAX_AUDIO_BYTES
\* (a total equal to the ceiling is accepted); the first chunk that takes the
\* total above the ceiling is not forwarded, takes the oversize error path and
\* ends the receive loop, so that nothing is forwarded after it; the bytes
\* forwarded never exceed the ceiling.
C4_ByteBudget ==
    /\ SumSeq(fed) <= MAX_AUDIO_BYTES
    /\ fed = WithinCeiling(audio_in, MAX_AUDIO_BYTES)
    /\ SumSeq(audio_in) > MAX_AUDIO_BYTES =>
          /\ Len(audio_in) = Len(fed) + 1
          /\ hpc \notin {"recv", "analyzing"}
          /\ OversizeSignalled

\* C4's case: chunks summing to exactly the ceiling were forwarded and the
\* next chunk was refused.
C4_Witness ==
    /\ SumSeq(fed) = MAX_AUDIO_BYTES
    /\ SumSeq(audio_in) > MAX_AUDIO_BYTES

\* C5: what the sender sends follows the order of the queue: of two messages
\* made from queue items, the one made from the earlier item is sent first; an
\* item that is passed on is sent once and as it was put; only the messages of
\* one dialogue cycle share an item, and no two of them are alike.
C5_SendOrder ==
    \A i, j \in 1..Len(sent) :
        (i < j /\ sent[i].src # 0 /\ sent[j].src # 0) =>
            /\ sent[i].src <= Len(enq)
            /\ sent[i].src <= sent[j].src
            /\ enq[sent[i].src].type # "None"
            /\ (handler = "voice" \/ enq[sent[i].src].type # "done") =>
                  /\ sent[i].src < sent[j].src
                  /\ sent[i].type = enq[sent[i].src].type
                  /\ sent[i].text = enq[sent[i].src].text
            /\ sent[i].src = sent[j].src => sent[i].type # sent[j].type

\* C5's case: two different queue items have been sent, by either handler.
C5_Witness ==
    \E i, j \in 1..Len(sent) :
        /\ i < j
        /\ sent[i].src # 0
        /\ sent[i].src < sent[j].src
        /\ sent[i].type # sent[j].type

IsEngineEvent(item) ==
    item # NoneItem /\ ~IsOversizeError(item)

\* The engine kept to the order of a recognition session: on_open first,
\* nothing but on_close after on_complete or on_error, nothing after on_close.
ByProtocol ==
    \A i \in 1..Len(calls) :
        /\ calls[i].cb = "on_open" => i = 1
        /\ calls[i].cb = "on_close" => i = Len(calls)
        /\ (calls[i].cb \in {"on_complete", "on_error"} /\ i < Len(calls)) =>
              calls[i + 1].cb = "on_close"

\* C6: when the handler returns with the peer still connected, every event an
\* engine callback put on the queue has been taken by the sender: none is left
\* behind in the queue.  (Stated for the sessions of an engine that keeps to
\* its protocol; the claim covers them.)
C6_NoEventLost ==
    (Returned /\ peer = "connected" /\ ByProtocol) =>
        \A i \in Positions(enq, IsEngineEvent) : i <= deq

IsFragment(call) == call.cb = "on_event" /\ Strip(call.text) # <<>>
IsBlank(call) == call.cb = "on_event" /\ Strip(call.text) = <<>>
IsTranscript(item) == item.type = "transcript"
\* The on_event calls whose text is not empty after trimming, in order, and
\* the transcript events put on the queue, in order.
NonBlankCalls == SelectSeq(calls, IsFragment)
TranscriptItems == SelectSeq(enq, IsTranscript)
\* The first k trimmed fragments, joined by single spaces.
JoinedUpTo(k) == Join([i \in 1..k |-> Strip(NonBlankCalls[i].text)])

\* C7: there is one transcript event for each on_event call whose fragment is
\* not empty after trimming, none for a fragment that is; the k-th transcript
\* event carries the first k such fragments joined by spaces, so each one
\* extends the one before it and none carries the new fragment alone.
C7_Aggregation ==
    /\ Len(TranscriptItems) = Len(NonBlankCalls)
    /\ \A k \in 1..Len(TranscriptItems) :
          /\ TranscriptItems[k].text = JoinedUpTo(k)
          /\ k > 1 =>
                /\ TranscriptItems[k].text # Strip(NonBlankCalls[k].text)
                /\ Len(TranscriptItems[k].text) > Len(TranscriptItems[k - 1].text)
                /\ SubSeq(TranscriptItems[k].text, 1, Len(TranscriptItems[k - 1].text))
                      = TranscriptItems[k - 1].text

\* C7's case: two fragments with text and a blank one have been reported, and
\* two transcript events made.
C7_Witness ==
    /\ Len(TranscriptItems) = 2
    /\ Positions(calls, IsBlank) # {}
    /\ TranscriptItems[1].text # TranscriptItems[2].text

\* Positions in sent of the messages made from the queue item at position i.
FromItem(i) == { j \in 1..Len(sent) : sent[j].src = i }
IsDoneOut(out) == out.type = "done"
Last(S) == CHOOSE j \in S : \A k \in S : k <= j

\* C8: in dialogue_live with the peer connected, once the sender is through
\* with a done item it took from the queue, exactly one done event made from
\* that item has been sent, and it is the last message made from it.
C8_CycleEndsWithDone ==
    (handler = "dialogue" /\ peer = "connected") =>
        \A i \in 1..deq :
            (enq[i].type = "done" /\ (i < deq \/ spc \in {"get", "done"})) =>
                /\ Cardinality(FromItem(i) \cap Positions(sent, IsDoneOut)) = 1
                /\ sent[Last(FromItem(i))].type = "done"

IsVisionError(out) == out.type = "error" /\ out.text = VisionErrMsg
\* Scene events sent for the image reference u.
SceneEvents(u) ==
    Cardinality({ j \in 1..Len(sent) : sent[j].type = "scene" /\ sent[j].text = <<u>> })
\* Two frame messages with the same image reference u have been handled, the
\* peer is there, and no analysis failed.
SameFrameTwice(u) ==
    /\ handler = "dialogue"
    /\ frames = <<u, u>>
    /\ hpc = "recv"
    /\ peer = "connected"
    /\ Positions(sent, IsVisionError) = {}

StopTwice ==
    \/ Len(stopLog) >= 2
    \/ /\ Positions(stopLog, IsStopMessage) # {}
       /\ hpc \in {"ens_C", "await_sender", "returned"}

\* C10: when stop has been requested twice, no call of recognizer.stop after
\* the first has raised out of the handler, no second terminal marker has been
\* put on the queue and no second done event has been sent.  (Stated for the
\* sessions of an engine that keeps to its protocol, which completes once.)
C10_StopIdempotent ==
    (StopTwice /\ ByProtocol) =>
        /\ \A k \in 2..Len(stopLog) :
              ~(stopLog[k].by = "message" /\ stopLog[k].raised)
        /\ Markers <= 1
        /\ Cardinality(Positions(sent, IsDoneOut)) <= 1

IsEngineError(x) == x.type = "error" /\ x.text = EngineErrMsg
\* The sender has taken the error event an on_error call put on the queue.
EngineErrorTaken == \E i \in 1..deq : IsEngineError(enq[i])

\* C11: when the engine has reported an error through on_error and the sender
\* is through with the queue, the peer being connected, the client has been
\* sent the error event and a done event after it.  (Stated for the sessions
\* of an engine that keeps to its protocol.)
C11_ErrorThenDone ==
    (peer = "connected" /\ spc = "done" /\ ByProtocol /\ EngineErrorTaken) =>
        \E i, j \in 1..Len(sent) :
            /\ i < j
            /\ IsEngineError(sent[i])
            /\ sent[j].type = "done"

\* A stop control message has been processed.
StopMessageSeen == Positions(stopLog, IsStopMessage) # {}

\* C12: once a stop message has been processed, no step forwards an audio
\* chunk to the recognizer, changes the byte counter, calls the vision
\* analysis or changes the scene cache.
C12_InputIgnoredAfterStop ==
    [][StopMessageSeen =>
          /\ fed' = fed
          /\ total_bytes' = total_bytes
          /\ visionLog' = visionLog
          /\ current_scene' = current_scene
          /\ last_image_url' = last_image_url]_vars

IsDoneItem(item) == item.type = "done"
IsCycleError(out) == out.type = "error" /\ out.text \in {ReasonErrMsg, TtsErrMsg}
\* A dialogue cycle has sent an error and then its done.
FailedCycleDone ==
    \E j, k \in 1..Len(sent) :
        /\ j < k
        /\ IsCycleError(sent[j])
        /\ sent[k].type = "done"
        /\ sent[k].src = sent[j].src

\* C13: in dialogue_live a cycle that ended with an error and done does not
\* end the session: with the peer connected, the sender does not finish while
\* a done event the engine produced later is still waiting in the queue.
C13_LaterCycleProcessed ==
    (handler = "dialogue" /\ peer = "connected" /\ FailedCycleDone /\ spc = "done") =>
        \A i \in Positions(enq, IsDoneItem) : i <= deq

\* A dialogue cycle awaits chat_completion or _synthesize_speech.
CycleInFlight == spc \in {"reasoning", "synth"}

\* C14: while a dialogue cycle is in flight the sender takes nothing from the
\* queue: the item taken last is the done event of that cycle, nothing made
\* from a later item has been sent, and the cycle's done has not been sent yet,
\* whatever has been put on the queue behind it.
C14_OneCycleInFlight ==
    /\ [](CycleInFlight =>
            /\ cycle.src = deq
            /\ enq[deq].type = "done"
            /\ \A j \in 1..Len(sent) :
                  /\ sent[j].src <= deq
                  /\ sent[j].src = deq => sent[j].type # "done")
    /\ [][CycleInFlight => deq' = deq]_vars

\* C14's case: a later done event is on the queue while the earlier cycle
\* awaits its reply or its audio.
C14_Witness ==
    /\ CycleInFlight
    /\ \E i \in (deq + 1)..Len(enq) : enq[i].type = "done"

StartFailed == engine \in {"construct_raises", "start_raises"}
StartError == Out("error", StartErrMsg, 0)

VisionErrorSent ==
    /\ hpc = "analyzing"
    /\ Len(sent') = Len(sent) + 1
    /\ IsVisionError(sent'[Len(sent')])

\* C16: in dialogue_live the step that reports a failed scene analysis to the
\* client leaves the cached snapshot and the last-processed image reference
\* as they were before the frame message, goes back to receiving and does not
\* stop the engine.
C16_VisionFailureKeepsCache ==
    [][VisionErrorSent =>
          /\ current_scene' = current_scene
          /\ last_image_url' = last_image_url
          /\ hpc' = "recv"
          /\ stopLog' = stopLog]_vars

\* The audio received exceeds the ceiling and the handler has gone through
\* its teardown up to the sender, which is over.
OversizeSessionOver ==
    /\ SumSeq(audio_in) > MAX_AUDIO_BYTES
    /\ hpc \in {"await_sender", "returned"}
    /\ spc = "done"

\* C17: when the audio of a session exceeded MAX_AUDIO_BYTES and the session
\* is over with the peer still connected, the client has been sent exactly one
\* error event with the oversize message, whatever the engine had reported
\* before, and recognizer.stop has been called.
C17_OversizeReported ==
    (OversizeSessionOver /\ peer = "connected") =>
        /\ Cardinality(Positions(sent, IsOversizeError)) = 1
        /\ stopLog # <<>>

\* The teardown waits for a sender that waits for the queue, after
\* recognizer.stop: nothing is left that could put the terminal marker.
TeardownStuck ==
    /\ hpc = "await_sender"
    /\ spc = "get"
    /\ deq = Len(enq)
    /\ epc = "idle"
\* dialogue_live's send of the oversize error failed: the peer had gone.
OversizeSendFailed ==
    /\ handler = "dialogue"
    /\ SumSeq(audio_in) > MAX_AUDIO_BYTES
    /\ Positions(sent, IsOversizeError) = {}

\* C18: a send that fails because the peer has gone away is not fatal: its
\* exception does not leave the handler, recognizer.stop is called in a
\* session whose engine runs, and the teardown does not wait for ever for the
\* sender; a handler that is over has joined the sender.
C18_SendFailureNotFatal ==
    /\ hraised # "send_text"
    /\ OversizeSendFailed => ~TeardownStuck
    /\ (peer = "gone" /\ Returned) => (stopLog # <<>> /\ spc = "done")

\* A stop message was processed and the sender has drained the queue up to
\* the terminal marker (or has given up sending).
Drained == stopped /\ spc = "done"

\* C19: after a stop message, once the sender has drained the queue, the
\* server closes the transport and the handler returns, with no further
\* message from the client and without the client going away.
C19_ClosesAfterDrain == Drained ~> (closed /\ hpc = "returned")

\* An event that only a remote reasoning, vision or synthesis call can lead
\* to: its failure, or audio that is not the local stand-in.
FromRemoteCall(out) ==
    \/ out.type = "error" /\ out.text \in {ReasonErrMsg, VisionErrMsg}
    \/ out.type = "assistant_audio" /\ out.text = <<"remote">>

\* C20: in mock mode a live session goes round the external engines: no
\* recognizer is constructed, started, fed or stopped, no engine callback
\* fires, and nothing sent stems from a remote reasoning, vision or synthesis
\* call.
C20_MockBypassesEngines ==
    mock_mode =>
        /\ engine = "none"
        /\ fed = <<>>
        /\ stopLog = <<>>
        /\ calls = <<>>
        /\ Positions(sent, FromRemoteCall) = {}

\* C21: when recognizer.start raised after the recognizer was constructed and
\* the handler is over, recognizer.stop has been called exactly once and the
\* transport has been closed (the peer being there).
C21_FailedStartStopsEngine ==
    (engine = "start_raises" /\ hpc = "returned" /\ peer = "connected") =>
        /\ Len(stopLog) = 1
        /\ closed

\* The translations with a non-empty text that the on_event calls carried, in
\* the order of the calls and of each call's language list.
IsStored(t) == t.text # <<>>
RECURSIVE TranslationUpdates(_)
TranslationUpdates(cs) ==
    IF cs = <<>> THEN <<>>
    ELSE TranslationUpdates(SubSeq(cs, 1, Len(cs) - 1))
             \o SelectSeq(cs[Len(cs)].trans, IsStored)
IsTranslation(item) == item.type = "translation"
TranslationItems(q) ==
    LET items == SelectSeq(q, IsTranslation)
    IN  [i \in 1..Len(items) |-> Tr(items[i].language, items[i].text)]
\* The text of the last translation event for a language among those of q.
LatestText(q, language) ==
    LET at == { i \in 1..Len(q) : IsTranslation(q[i]) /\ q[i].language = language }
        last == CHOOSE i \in at : \A j \in at : j <= i
    IN  q[last].text

\* C22: in a translation session the translation events put on the queue are,
\* in order, exactly the non-empty per-language translations the on_event
\* calls carried, each with its language and text; and the translations of a
\* done event hold exactly one entry for each language announced before it,
\* with the text of the latest announcement for that language.
C22_TranslationsTracked ==
    handler = "voice" =>
        /\ TranslationItems(enq) = TranslationUpdates(calls)
        /\ \A i \in 1..Len(enq) :
              enq[i].type = "done" =>
                 LET before == SubSeq(enq, 1, i - 1)
                     listed == enq[i].translations
                 IN  /\ \A j, k \in 1..Len(listed) :
                           listed[j].language = listed[k].language => j = k
                     /\ { listed[j].language : j \in 1..Len(listed) }
                           = { e.language : e \in { before[n] : n \in Positions(before, IsTranslation) } }
                     /\ \A j \in 1..Len(listed) :
                           listed[j].text = LatestText(before, listed[j].language)

\* A done event listing two languages, one of them announced twice with
\* different texts before it.
C22_Witness ==
    \E i \in 1..Len(enq) :
        /\ enq[i].type = "done"
        /\ Len(enq[i].translations) = 2
        /\ \E m, n \in 1..(i - 1) :
              /\ m < n
              /\ IsTranslation(enq[m]) /\ IsTranslation(enq[n])
              /\ enq[m].language = enq[n].language
              /\ enq[m].text # enq[n].text

\* The types of the messages made from the queue item at position i, in the
\* order they were sent.
CycleTypes(i) ==
    LET OfItem(out) == out.src = i
        outs == SelectSeq(sent, OfItem)
    IN  [j \in 1..Len(outs) |-> outs[j].type]
\* The dialogue cycles the sender is through with: done items it has taken.
CyclesOver ==
    { i \in 1..deq : enq[i].type = "done" /\ (i < deq \/ spc \in {"get", "done"}) }

\* C23: in dialogue_live with the peer connected, the events sent for a cycle
\* the sender is through with are done alone exactly when the joined transcript
\* is empty, and otherwise error and done, or assistant_text, assistant_audio
\* and done, or assistant_text, error and done.
C23_CycleShapes ==
    (handler = "dialogue" /\ peer = "connected") =>
        \A i \in CyclesOver :
            IF Strip(Join(enq[i].segs)) = <<>>
               THEN CycleTypes(i) = <<"done">>
               ELSE CycleTypes(i) \in
                        { <<"error", "done">>,
                          <<"assistant_text", "assistant_audio", "done">>,
                          <<"assistant_text", "error", "done">> }

\* The oversize abort has fired: a chunk took the running total above the
\* ceiling.
OversizeFired == SumSeq(audio_in) > MAX_AUDIO_BYTES

\* C24: the chunks forwarded to recognizer.send_audio_frame are the chunks
\* received, in arrival order, each once, as long as the oversize abort has not
\* fired; every step that forwards a chunk forwards exactly the chunk that has
\* just arrived, after all those forwarded before, and what was forwarded is
\* never changed afterwards.
C24_ForwardedInOrder ==
    /\ [](~OversizeFired => fed = audio_in)
    /\ [][/\ fed' # fed =>
                /\ audio_in' = Append(audio_in, audio_in'[Len(audio_in')])
                /\ fed' = Append(fed, audio_in'[Len(audio_in')])
          /\ (audio_in' # audio_in /\ ~OversizeFired') => fed' # fed]_vars

\* Two chunks of different lengths were received and forwarded.
C24_Witness ==
    /\ Len(fed) = 2
    /\ fed = audio_in
    /\ fed[1] # fed[2]

PlaceholderAudio(src) == Out("assistant_audio", <<"mock">>, src)

\* C25: in dialogue_live outside mock mode, when the remote synthesis call
\* fails for a reply that is not blank and the peer stays connected, the last
\* event of the cycle so far is its assistant_text and the step sends an
\* assistant_audio event with the placeholder audio and then the cycle's done,
\* and no error event.
C25_PlaceholderAudio ==
    [][(/\ DialogueSynthesized(FALSE)
        /\ ~mock_mode
        /\ Strip(cycle.reply) # <<>>
        /\ peer' = "connected")
       => /\ sent[Last(FromItem(cycle.src))]
                 = Out("assistant_text", Strip(cycle.reply), cycle.src)
          /\ sent' = sent \o << PlaceholderAudio(cycle.src),
                               Out("done", <<>>, cycle.src) >>]_vars

\* Outside mock mode a cycle has sent assistant_text, the placeholder audio
\* and done, in this order and to a peer that is there.
C25_Witness ==
    /\ handler = "dialogue"
    /\ ~mock_mode
    /\ peer = "connected"
    /\ Len(sent) >= 3
    /\ LET n == Len(sent)
       IN  /\ sent[n - 2].type = "assistant_text"
           /\ sent[n - 1] = PlaceholderAudio(sent[n - 2].src)
           /\ sent[n] = Out("done", <<>>, sent[n - 2].src)

IsSceneOut(out) == out.type = "scene"
\* The summary of the image analysed successfully last, as the scene events
\* sent to a peer that is there tell it; empty when there is none.
LatestSceneSummary ==
    LET scenes == Positions(sent, IsSceneOut)
    IN  IF scenes = {} THEN <<>> ELSE SummaryOf(Snapshot(sent[Last(scenes)].text[1]))
\* The sender takes a done item whose joined transcript is not empty.
TakesSpokenDone ==
    /\ handler = "dialogue"
    /\ spc = "get"
    /\ deq' = deq + 1
    /\ enq[deq + 1].type = "done"
    /\ Strip(Join(enq[deq + 1].segs)) # <<>>

\* C26: in dialogue_live with the peer connected, the step that takes a done
\* item with a non-empty transcript composes the reply request with the
\* summary of the image analysed successfully last, or with the empty string
\* when there is none; and while the cycle is in flight its request keeps that
\* summary, whatever frame is analysed meanwhile.
C26_RequestUsesCachedSummary ==
    [][/\ (TakesSpokenDone /\ peer = "connected") =>
              /\ spc' = "reasoning"
              /\ cycle'.summary = LatestSceneSummary
       /\ (CycleInFlight /\ CycleInFlight') => cycle'.summary = cycle.summary]_vars

\* C27: in voice_translate_live, where _finish is entered from the engine
\* thread (on_complete, on_error, on_close) and from the event-loop thread
\* (ensure_finished, finish_with_error), no two positions of the queue hold a
\* terminal marker, however the two threads' reads and writes of _ended
\* interleave.
C27_GuardRaceFree ==
    handler = "voice" =>
        \A i, j \in Positions(enq, IsNone) : i = j

\* C28: on the hand-off queue of either handler nothing is put after a
\* terminal marker: a marker on the queue is its last item.  (Stated for the
\* sessions of an engine that keeps to its protocol; the claim covers them.)
C28_MarkerIsLast ==
    ByProtocol =>
        \A i \in Positions(enq, IsNone) : i = Len(enq)

\* C29: in dialogue_live the cached snapshot is null exactly when the
\* last-processed image reference is null, and otherwise it is the snapshot
\* of the successful analysis of that reference; and a step changes either of
\* them only by a successful analysis of a reference different from the last
\* one, which sets both.
C29_CacheMatchesKey ==
    /\ [](handler = "dialogue" =>
            /\ (current_scene = NoScene) <=> (last_image_url = NoValue)
            /\ last_image_url # NoValue => current_scene = Snapshot(last_image_url))
    /\ [][(current_scene' # current_scene \/ last_image_url' # last_image_url) =>
              /\ pending # last_image_url
              /\ last_image_url' = pending
              /\ current_scene' = Snapshot(pending)]_vars

\* The event stream of voice_translate_stream has ended after a recognizer
\* was started.
StreamOver == handler = "stream" /\ spc = "done" /\ engine = "running"

\* C30: when the live event stream of voice_translate_stream has ended, the
\* recognizer that was started has been stopped exactly once, and exactly one
\* terminal marker has been put on the queue.
C30_StreamStopsEngine ==
    StreamOver =>
        /\ Len(stopLog) = 1
        /\ Markers = 1
====
